---------------------------- MODULE Spec2Model ----------------------------
(***************************************************************************)
(* Cooperative periodic schedulers for the MSP430FR5994 (1 ms TA0 tick):   *)
(*   scheduler.c      pending-counter dispatcher                           *)
(*   time_slices.c    pending-counter dispatcher with ms_ticks             *)
(*   superloop.c      two-flag superloop                                   *)
(*   phase_offset.c   phase-offset dispatcher                              *)
(*   scheduler_generator.c   offline planner of a slot table              *)
(*                                                                         *)
(* The CPU is one process (pc) plus the timer interrupt.  The status       *)
(* register is the pair gie / cpuoff (LPM0), the timer's latched request   *)
(* is ifg.  An interrupt is taken at an instruction boundary when gie and  *)
(* ifg are both set, before the next instruction of main; the handler runs *)
(* to completion and clears cpuoff on exit.                                *)
(*                                                                         *)
(* Arrays are 1-based here (tasks[1] is the C tasks[0]); task_count is     *)
(* Len(tasks).  32-bit unsigned values that may wrap are pairs <<hi, lo>>  *)
(* of 16-bit words, as the 16-bit CPU holds them.                          *)
(***************************************************************************)
EXTENDS Integers, Sequences, FiniteSets, TLC

VARIABLES
    sc,          \* the scenario: program, registered tasks, timing (never changes)
    tasks,       \* task table
    local_ms,    \* the handler's static accumulators
    ms_ticks,    \* time_slices.c tick counter <<hi, lo>>
    sys_ms,      \* phase_offset.c tick counter <<hi, lo>>
    flag_100ms, flag_500ms, c100, c500,     \* superloop.c
    gie, cpuoff, ifg,                        \* SR.GIE, SR.CPUOFF (LPM0), TA0 CCIFG
    since,       \* instructions of main executed since the last tick (timing)
    pc, i, have_work, run_cnt, now_ms,       \* main()
    el,          \* ticks serviced since the running task body was entered
    \* history (not program state)
    ticks,       \* ticks serviced by the handler
    expired,     \* per task: period expiries seen by the handler
    started,     \* per task: invocations of fn
    dropped,     \* per task: increments discarded at the ceiling
    fromZero,    \* per task: period expiries since pending was last zeroed
    snap,        \* pending of task i when the drain's critical section began
    calls,       \* invocations of fn made by the drain in progress
    irqInCrit,   \* a tick was serviced inside the drain's critical section
    nowTicks,    \* ticks serviced when now_ms was last read from sys_ms
    iterRan,     \* per task: dispatches in the current iteration of while(1)
    \* scheduler_generator.c
    schedule,    \* slot table, schedule[1..num_slots] in use
    num_slots, hyperperiod_ms, slot_idx,
    \* history: the last registration call, NoCall before the first
    call,
    \* history of run_scheduler: the slots run and the slots missed
    disp,
    \* time_slices.c task body: the word of ms_ticks TIME_EXPIRED reads first,
    \* the value it has read, and the ticks elapsed since the body began at
    \* each of its two moves
    probe

hw   == <<gie, cpuoff, ifg, since>>
loop == <<pc, i, have_work, run_cnt, now_ms, el>>
sup  == <<flag_100ms, flag_500ms, c100, c500>>
hist == <<ticks, expired, started, dropped, fromZero, snap, calls, irqInCrit,
           nowTicks, iterRan>>
gen  == <<schedule, num_slots, hyperperiod_ms, slot_idx, call>>
vars == <<sc, tasks, local_ms, ms_ticks, sys_ms, sup, hw, loop, hist, gen, disp, probe>>

---------------------------------------------------------------------------
(* Bounds of the model *)

\* ticks explored in the scenarios where ticks may arrive at any instruction
AdvTicks == 24
\* ticks explored in the scenarios with the nominal 1 ms timing
NomTicks == 1000
\* instructions main is sure to execute between two ticks in the nominal timing
NomSteps == 24
\* ticks explored for superloop.c (one period of its slower flag is 500)
SupTicks == 510
\* ticks explored across the wrap of the 32-bit tick counter
WrapTicks == 40
\* ticks explored beyond the saturation of pending
SatExtra == 4
\* ticks explored with a full task table
FullTicks == 12
\* add_task calls made before the plan is computed
MaxPlanTasks == 3
\* ticks explored in the wake-up scenarios
RepoTicks == 40
ExpExtra == 2
TableTicks == 320
TableWrapTicks == 120
WakeTicks == 10
\* task slots the wake-up property ranges over
WakeSlots == 2

(* Program constants *)
MAX_TASKS   == 8
MAX_SLOTS   == 128
PENDING_MAX == 65535
NULL        == "NULL"
W16         == 2^16
\* dispatches of a 10 ms task before tick UINT32_MAX - 5 = 4294967290
UptimeAtWrap == 2147483647 \div 5

Min(a, b) == IF a < b THEN a ELSE b

---------------------------------------------------------------------------
(* 32-bit unsigned arithmetic on <<hi, lo>> *)

U32(n) == <<(n \div W16) % W16, n % W16>>

U32Add(a, b) ==
    LET lo == a[2] + b[2]
    IN  <<(a[1] + b[1] + lo \div W16) % W16, lo % W16>>

U32Sub(a, b) ==
    LET lo == a[2] - b[2]
        borrow == IF lo < 0 THEN 1 ELSE 0
    IN  <<(a[1] - b[1] - borrow + 2 * W16) % W16, (lo + W16) % W16>>

\* (int32_t)a >= 0
I32NonNeg(a) == a[1] < W16 \div 2

\* (uint16_t)x of a 32-bit value held as a number
U16(x) == x % W16

\* k * p modulo 2^32, for numbers k < 2^31 and p < 2^15
U32Mul(k, p) ==
    LET lo == (k % W16) * p
    IN  <<((k \div W16) * p + lo \div W16) % W16, lo % W16>>

\* The 16-bit products and quotients below go byte by byte, so that no
\* intermediate value needs more than 31 bits.

\* the four bytes of a 32-bit value, most significant first
Bytes(a) == <<a[1] \div 256, a[1] % 256, a[2] \div 256, a[2] % 256>>

FromBytes(b) == <<b[1] * 256 + b[2], b[3] * 256 + b[4]>>

\* long division of a 32-bit value by d, 0 < d < 2^16: <<quotient bytes, remainder>>
RECURSIVE DivBytes(_, _, _, _, _)
DivBytes(b, d, k, q, r) ==
    IF k > 4 THEN <<q, r>>
    ELSE LET v == r * 256 + b[k]
         IN  DivBytes(b, d, k + 1, Append(q, v \div d), v % d)

\* uint32_t / and % by a value below 2^16
U32DivSmall(a, d) == FromBytes(DivBytes(Bytes(a), d, 1, <<>>, 0)[1])
U32ModSmall(a, d) == DivBytes(Bytes(a), d, 1, <<>>, 0)[2]

\* uint32_t * by a value below 2^16, modulo 2^32: bytes from the least
\* significant, with carry c
RECURSIVE MulBytes(_, _, _, _, _)
MulBytes(b, m, k, c, out) ==
    IF k < 1 THEN out
    ELSE LET v == b[k] * m + c
         IN  MulBytes(b, m, k - 1, v \div 256, <<v % 256>> \o out)

U32MulSmall(a, m) == FromBytes(MulBytes(Bytes(a), m, 4, 0, <<>>))

\* the number a pair stands for, when it is below 2^31
U32Val(a) == a[1] * W16 + a[2]

\* unsigned and signed (int32_t) order of two 32-bit values
U32Le(a, b) == a[1] < b[1] \/ (a[1] = b[1] /\ a[2] <= b[2])
I32Ge(a, b) ==
    LET sa == (a[1] + W16 \div 2) % W16
        sb == (b[1] + W16 \div 2) % W16
    IN  sa > sb \/ (sa = sb /\ a[2] >= b[2])

---------------------------------------------------------------------------
(* Registration *)

\* dur is not a field of task_t: it is the running time of fn's body, a pair
\* <<least, most>> of ticks serviced between the call and the return
NewTask(fn, period_ms, slice_ms, phase_offset_ms, dur) ==
    [fn |-> fn, period_ms |-> period_ms, slice_ms |-> slice_ms,
     phase_offset_ms |-> phase_offset_ms, next_run_ms |-> U32(phase_offset_ms),
     pending |-> 0, dur |-> dur]

\* faulty variant: registration without the test for a full table
register_task_unbounded(tbl, fn, period_ms, dur) ==
    IF fn = NULL \/ period_ms = 0
    THEN tbl
    ELSE Append(tbl, NewTask(fn, period_ms, 0, 0, dur))

\* scheduler.c
scheduler_register_task(tbl, fn, period_ms, dur) ==
    IF fn = NULL \/ period_ms = 0 \/ Len(tbl) >= MAX_TASKS
    THEN tbl
    ELSE Append(tbl, NewTask(fn, period_ms, 0, 0, dur))

\* time_slices.c
Scheduler_AddTask(tbl, fn, period_ms, slice_ms, dur) ==
    IF fn = NULL \/ period_ms = 0 \/ Len(tbl) >= MAX_TASKS
    THEN tbl
    ELSE Append(tbl, NewTask(fn, period_ms, slice_ms, 0, dur))

\* phase_offset.c
phase_offset_register_task(tbl, fn, period_ms, slice_ms, phase_offset_ms, dur) ==
    IF Len(tbl) >= MAX_TASKS
    THEN tbl
    ELSE Append(tbl, NewTask(fn, period_ms, slice_ms, phase_offset_ms, dur))

RECURSIVE RegisterAll(_, _, _)
RegisterAll(prog, tbl, regs) ==
    IF regs = <<>> THEN tbl
    ELSE LET r == Head(regs)
             t == CASE prog = "scheduler" ->
                         scheduler_register_task(tbl, r.fn, r.period_ms, r.dur)
                    [] prog = "time_slices" ->
                         Scheduler_AddTask(tbl, r.fn, r.period_ms, r.slice_ms, r.dur)
                    [] OTHER ->
                         phase_offset_register_task(tbl, r.fn, r.period_ms, r.slice_ms,
                                                    r.phase_offset_ms, r.dur)
         IN  RegisterAll(prog, t, Tail(regs))

\* one registration made by main: the arguments, and the running time of the
\* task body in ticks (dur)
Reg(fn, period_ms, slice_ms, phase, dur) ==
    [fn |-> fn, period_ms |-> period_ms, slice_ms |-> slice_ms,
     phase_offset_ms |-> phase, dur |-> <<0, dur>>]

\* a body that busy-waits for exactly dur ticks
RegBusy(fn, period_ms, slice_ms, phase, dur) ==
    [fn |-> fn, period_ms |-> period_ms, slice_ms |-> slice_ms,
     phase_offset_ms |-> phase, dur |-> <<dur, dur>>]

---------------------------------------------------------------------------
(* Scenarios: the program, the registrations made by main, the running   *)
(* time of each task body in ticks, and the timing of the tick.          *)

\* main() of scheduler.c; the bodies return at once
SchedulerMain == << Reg("task_10ms", 10, 0, 0, 0), Reg("task_100ms", 100, 0, 0, 0),
                    Reg("task_500ms", 500, 0, 0, 0) >>
\* main() of time_slices.c; each body runs for its slice
TimeSlicesMain == << Reg("Task_10ms", 10, 2, 0, 2), Reg("Task_100ms", 100, 10, 0, 10),
                     Reg("Task_500ms", 500, 50, 0, 50) >>

\* uptime: dispatch rounds every task has completed when the model starts (0
\* at boot); the tick counter then stands at the first task's next activation
Scenario(name, prog, regs, steps, horizon) ==
    [name |-> name, prog |-> prog, regs |-> regs, steps |-> steps, horizon |-> horizon,
     uptime |-> 0]

ScenarioAt(name, prog, regs, steps, horizon, uptime) ==
    [name |-> name, prog |-> prog, regs |-> regs, steps |-> steps, horizon |-> horizon,
     uptime |-> uptime]

PendingScenarios ==
    { Scenario("single10", "scheduler", << Reg("task_10ms", 10, 1, 0, 1) >>, NomSteps, NomTicks),
      Scenario("overrun35", "scheduler", << Reg("task_10ms", 10, 1, 0, 35) >>, 1, 4 * AdvTicks),
      Scenario("adv_sched", "scheduler",
               << Reg("a", 2, 0, 0, 1), Reg("b", 3, 0, 0, 2) >>, 1, AdvTicks),
      Scenario("adv_slices", "time_slices",
               << Reg("a", 2, 1, 0, 1), Reg("b", 5, 2, 0, 2) >>, 1, AdvTicks),
      \* a period that does not fit the handler's 16-bit accumulator
      Scenario("wide", "scheduler", << Reg("task_wide", W16 + 3, 0, 0, 1) >>, NomSteps,
               AdvTicks),
      \* a 1 ms task whose body blocks for more than 0xFFFF periods
      Scenario("saturate", "time_slices",
               << RegBusy("blocking", 1, 1, 0, PENDING_MAX + SatExtra) >>, NomSteps,
               PENDING_MAX + 2 * SatExtra) }

---------------------------------------------------------------------------
(* State after main's initialisation, at the first instruction of while(1) *)

\* no registration call recorded
NoCall == [prog |-> "none"]

\* no slot run or missed yet.  n: slots run; slot, at: the last slot run
\* (index from 1) and the ticks serviced when it was called; last, gap: per
\* task, the ticks serviced at its last activation (-1 before the first) and
\* between its last two; miss, missAt, missN: the slot whose tick went by
\* unobserved and is still to be run (0: none), the ticks serviced and the
\* slots run by then; recov, recGap: missed slots run at last, and the ticks
\* between the miss and the run of the latest of them
NoDisp ==
    [n |-> 0, slot |-> 0, at |-> 0,
     last |-> [k \in 1..MAX_TASKS |-> -1], gap |-> [k \in 1..MAX_TASKS |-> 0],
     miss |-> 0, missAt |-> 0, missN |-> 0, recov |-> 0, recGap |-> 0]

\* nothing read yet
NoProbe == [first |-> "lo", val |-> <<0, 0>>, e1 |-> 0, e2 |-> 0]

TaskIdx == 1..Len(tasks)
Zeros   == [k \in 1..MAX_TASKS |-> 0]

\* the table after main's registrations and sc.uptime completed dispatches of
\* every task
BootTable ==
    LET tbl == RegisterAll(sc.prog, <<>>, sc.regs)
    IN  [k \in 1..Len(tbl) |->
           [tbl[k] EXCEPT !.next_run_ms = U32Add(@, U32Mul(sc.uptime, tbl[k].period_ms))]]

\* registered: main's registration calls have been made
InitFrom(scenarios, first_pc, registered) ==
    /\ sc \in scenarios
    /\ tasks = IF registered THEN BootTable ELSE <<>>
    /\ local_ms = Zeros
    /\ ms_ticks = U32(0)
    /\ sys_ms = IF sc.uptime = 0 THEN U32(0) ELSE tasks[1].next_run_ms
    /\ flag_100ms = FALSE /\ flag_500ms = FALSE /\ c100 = 0 /\ c500 = 0
    \* superloop.c never executes __enable_interrupt() before its loop
    /\ gie = (sc.prog # "superloop") /\ cpuoff = FALSE /\ ifg = FALSE
    /\ since = 0
    /\ pc = first_pc
    /\ i = 1 /\ have_work = FALSE /\ run_cnt = 0 /\ now_ms = U32(0)
    /\ el = 0
    /\ ticks = 0
    /\ expired = Zeros /\ dropped = Zeros /\ fromZero = Zeros
    /\ started = [k \in 1..MAX_TASKS |-> IF k \in 1..Len(tasks) THEN sc.uptime ELSE 0]
    /\ snap = 0 /\ calls = 0 /\ irqInCrit = FALSE
    /\ nowTicks = 0 /\ iterRan = Zeros
    /\ schedule = <<>> /\ num_slots = 0 /\ hyperperiod_ms = U32(0) /\ slot_idx = 0
    /\ call = NoCall
    /\ disp = NoDisp /\ probe = NoProbe

InitWith(scenarios, first_pc) == InitFrom(scenarios, first_pc, TRUE)

InitPending == InitWith(PendingScenarios, "mask")

---------------------------------------------------------------------------
(* The timer and the interrupt *)

InBody == pc \in {"d_fn", "p_fn", "g_fn", "t_first", "t_second", "t_test"}

\* the running time <<least, most>> of the task body in progress: of the slot
\* being run (the n-th add_task call has func <<"T", n>>), of a body that
\* polls TIME_EXPIRED (it runs until the macro says so), of tasks[i]
BodyDur ==
    CASE pc = "g_fn" -> sc.regs[schedule[slot_idx + 1].func[2]].dur
      [] pc \in {"t_first", "t_second", "t_test"} -> <<0, sc.horizon>>
      [] OTHER -> tasks[i].dur

\* main can execute an instruction: the CPU is on and no interrupt is due
Running == ~cpuoff /\ ~(gie /\ ifg)

Step == since' = Min(since + 1, sc.steps)

\* A task body runs for at most dur[2] ms.  One that returns having seen fewer
\* than dur[2] ticks may have used all of its time, so that the next tick can
\* follow at once; one that has seen dur[2] ticks returns as soon after the
\* last of them as it was called after the tick before it.
BodyEnd ==
    since' = IF el < BodyDur[2] THEN sc.steps ELSE Min(since + 1, sc.steps)

\* TA0 reaches CCR0: the request is latched.  A tick follows the previous one
\* after at least sc.steps instructions of main, unless the CPU sleeps or a
\* task body is running and has time left.
TimerTick ==
    /\ ~ifg
    /\ ticks < sc.horizon
    /\ \/ cpuoff
       \/ InBody /\ el < BodyDur[2]
       \/ ~InBody /\ since >= sc.steps
    /\ ifg' = TRUE
    /\ since' = IF InBody THEN since ELSE 0
    /\ UNCHANGED <<sc, gen, disp, probe, tasks, local_ms, ms_ticks, sys_ms, sup, gie, cpuoff, loop, hist>>

\* faulty variant: the period test with > for >=
PeriodElapsedLate(l, period_ms) == (l + 1) % W16 > U16(period_ms)

\* local_ms[i]++; if (local_ms[i] >= (uint16_t)period_ms) local_ms[i] = 0
PeriodElapsed(l, period_ms) == (l + 1) % W16 >= U16(period_ms)
NextLocal(l, period_ms) == IF PeriodElapsed(l, period_ms) THEN 0 ELSE (l + 1) % W16

\* faulty variants: pending used as a flag; a 16-bit increment that wraps
SetFlag(p) == 1

WrapInc(p) == (p + 1) % W16

\* if (pending < 0xFFFF) pending++
SatInc(p) == IF p < PENDING_MAX THEN p + 1 ELSE p

InCrit == pc \in {"d_snap", "d_zero", "d_unmask"}

\* what every handler does besides its own body: the request is cleared on
\* entry and the LPM0 bits are cleared in the saved SR on exit
IsrFrame ==
    /\ gie /\ ifg
    /\ ifg' = FALSE
    /\ cpuoff' = FALSE
    /\ ticks' = ticks + 1
    /\ el' = IF InBody THEN el + 1 ELSE el
    /\ irqInCrit' = (irqInCrit \/ InCrit)
    /\ UNCHANGED <<sc, gen, probe, gie, since, pc, i, have_work, run_cnt, now_ms, snap, calls,
                   nowTicks, iterRan>>

IsrTasks ==
    /\ local_ms' = [k \in 1..MAX_TASKS |->
                      IF k \in TaskIdx THEN NextLocal(local_ms[k], tasks[k].period_ms)
                      ELSE local_ms[k]]
    /\ tasks' = [k \in TaskIdx |->
                      IF PeriodElapsed(local_ms[k], tasks[k].period_ms)
                      THEN [tasks[k] EXCEPT !.pending = SatInc(@)]
                      ELSE tasks[k]]
    /\ expired' = [k \in 1..MAX_TASKS |->
                      IF k \in TaskIdx /\ PeriodElapsed(local_ms[k], tasks[k].period_ms)
                      THEN expired[k] + 1 ELSE expired[k]]
    /\ fromZero' = [k \in 1..MAX_TASKS |->
                      IF k \in TaskIdx /\ PeriodElapsed(local_ms[k], tasks[k].period_ms)
                      THEN fromZero[k] + 1 ELSE fromZero[k]]
    /\ dropped' = [k \in 1..MAX_TASKS |->
                      IF /\ k \in TaskIdx
                         /\ PeriodElapsed(local_ms[k], tasks[k].period_ms)
                         /\ tasks[k].pending >= PENDING_MAX
                      THEN dropped[k] + 1 ELSE dropped[k]]
    /\ started' = started

\* scheduler.c Timer0_A0_ISR
Timer0_A0_ISR_scheduler ==
    /\ sc.prog = "scheduler"
    /\ IsrFrame
    /\ IsrTasks
    /\ UNCHANGED <<ms_ticks, sys_ms, sup, disp>>

\* time_slices.c Timer0_A0_ISR
Timer0_A0_ISR_time_slices ==
    /\ sc.prog = "time_slices"
    /\ IsrFrame
    /\ ms_ticks' = U32Add(ms_ticks, U32(1))
    /\ IsrTasks
    /\ UNCHANGED <<sys_ms, sup, disp>>

---------------------------------------------------------------------------
(* main() of scheduler.c and of time_slices.c: the while(1) loop *)

PendingProg == sc.prog \in {"scheduler", "time_slices"}

\* faulty variant: the loop scans without masking first
Main_mask_missing ==
    /\ PendingProg /\ Running /\ pc = "mask"
    /\ pc' = "scan"
    /\ Step
    /\ UNCHANGED <<sc, gen, disp, probe, tasks, local_ms, ms_ticks, sys_ms, sup, gie, cpuoff, ifg,
                   i, have_work, run_cnt, now_ms, el, hist>>

\* __disable_interrupt()
Main_mask ==
    /\ PendingProg /\ Running /\ pc = "mask"
    /\ gie' = FALSE
    /\ pc' = "scan"
    /\ Step
    /\ UNCHANGED <<sc, gen, disp, probe, tasks, local_ms, ms_ticks, sys_ms, sup, cpuoff, ifg,
                   i, have_work, run_cnt, now_ms, el, hist>>

\* for (...) if (tasks[i].pending) { have_work = 1; break; }
Main_scan ==
    /\ PendingProg /\ Running /\ pc = "scan"
    /\ have_work' = (\E k \in TaskIdx : tasks[k].pending # 0)
    /\ pc' = IF have_work' THEN "unmask" ELSE "sleep"
    /\ Step
    /\ UNCHANGED <<sc, gen, disp, probe, tasks, local_ms, ms_ticks, sys_ms, sup, gie, cpuoff, ifg,
                   i, run_cnt, now_ms, el, hist>>

\* __bis_SR_register(LPM0_bits | GIE): one instruction sets both bits
Main_sleep ==
    /\ PendingProg /\ Running /\ pc = "sleep"
    /\ gie' = TRUE
    /\ cpuoff' = TRUE
    /\ pc' = "unmask"
    /\ Step
    /\ UNCHANGED <<sc, gen, disp, probe, tasks, local_ms, ms_ticks, sys_ms, sup, ifg,
                   i, have_work, run_cnt, now_ms, el, hist>>

\* __enable_interrupt(); for (i = 0; ...
Main_unmask ==
    /\ PendingProg /\ Running /\ pc = "unmask"
    /\ gie' = TRUE
    /\ i' = 1
    /\ pc' = "d_mask"
    /\ Step
    /\ UNCHANGED <<sc, gen, disp, probe, tasks, local_ms, ms_ticks, sys_ms, sup, cpuoff, ifg,
                   have_work, run_cnt, now_ms, el, hist>>

\* faulty variant: the drain without its __disable_interrupt()
Main_d_mask_unmasked ==
    /\ PendingProg /\ Running /\ pc = "d_mask"
    /\ IF i \in TaskIdx
       THEN /\ run_cnt' = 0
            /\ pc' = "d_snap"
            /\ snap' = tasks[i].pending
            /\ calls' = 0
            /\ irqInCrit' = FALSE
            /\ UNCHANGED <<have_work>>
       ELSE /\ pc' = "mask"
            /\ have_work' = FALSE
            /\ UNCHANGED <<run_cnt, snap, calls, irqInCrit>>
    /\ Step
    /\ UNCHANGED <<sc, gen, disp, probe, tasks, local_ms, ms_ticks, sys_ms, sup, gie, cpuoff, ifg,
                   i, now_ms, el, ticks, expired, started, dropped, fromZero, nowTicks, iterRan>>

\* i < task_count: run_cnt = 0; __disable_interrupt();  else the loop starts over
Main_d_mask ==
    /\ PendingProg /\ Running /\ pc = "d_mask"
    /\ IF i \in TaskIdx
       THEN /\ run_cnt' = 0
            /\ gie' = FALSE
            /\ pc' = "d_snap"
            /\ snap' = tasks[i].pending
            /\ calls' = 0
            /\ irqInCrit' = FALSE
            /\ UNCHANGED <<have_work>>
       ELSE /\ pc' = "mask"
            /\ have_work' = FALSE
            /\ UNCHANGED <<run_cnt, gie, snap, calls, irqInCrit>>
    /\ Step
    /\ UNCHANGED <<sc, gen, disp, probe, tasks, local_ms, ms_ticks, sys_ms, sup, cpuoff, ifg,
                   i, now_ms, el, ticks, expired, started, dropped, fromZero, nowTicks, iterRan>>

\* if (tasks[i].pending) { run_cnt = tasks[i].pending;
Main_d_snap ==
    /\ PendingProg /\ Running /\ pc = "d_snap"
    /\ IF tasks[i].pending # 0
       THEN run_cnt' = tasks[i].pending /\ pc' = "d_zero"
       ELSE run_cnt' = run_cnt /\ pc' = "d_unmask"
    /\ Step
    /\ UNCHANGED <<sc, gen, disp, probe, tasks, local_ms, ms_ticks, sys_ms, sup, gie, cpuoff, ifg,
                   i, have_work, now_ms, el, hist>>

\* tasks[i].pending = 0; }
Main_d_zero ==
    /\ PendingProg /\ Running /\ pc = "d_zero"
    /\ tasks' = [tasks EXCEPT ![i].pending = 0]
    /\ fromZero' = [fromZero EXCEPT ![i] = 0]
    /\ pc' = "d_unmask"
    /\ Step
    /\ UNCHANGED <<sc, gen, disp, probe, local_ms, ms_ticks, sys_ms, sup, gie, cpuoff, ifg,
                   i, have_work, run_cnt, now_ms, el,
                   ticks, expired, started, dropped, snap, calls, irqInCrit,
                   nowTicks, iterRan>>

\* faulty variant: the drain calls fn without leaving its critical section
Main_d_unmask_missing ==
    /\ PendingProg /\ Running /\ pc = "d_unmask"
    /\ pc' = "d_while"
    /\ Step
    /\ UNCHANGED <<sc, gen, disp, probe, tasks, local_ms, ms_ticks, sys_ms, sup, gie, cpuoff, ifg,
                   i, have_work, run_cnt, now_ms, el, hist>>

\* __enable_interrupt();
Main_d_unmask ==
    /\ PendingProg /\ Running /\ pc = "d_unmask"
    /\ gie' = TRUE
    /\ pc' = "d_while"
    /\ Step
    /\ UNCHANGED <<sc, gen, disp, probe, tasks, local_ms, ms_ticks, sys_ms, sup, cpuoff, ifg,
                   i, have_work, run_cnt, now_ms, el, hist>>

\* while (run_cnt--) { [now = ms_ticks;] tasks[i].fn(...)   or   i++
Main_d_while ==
    /\ PendingProg /\ Running /\ pc = "d_while"
    /\ IF run_cnt # 0
       THEN /\ run_cnt' = run_cnt - 1
            /\ i' = i
            /\ IF sc.prog = "time_slices"
               THEN pc' \in {"d_now_lo", "d_now_hi"} /\ UNCHANGED <<el, started, calls>>
               ELSE /\ pc' = "d_fn"
                    /\ el' = 0
                    /\ started' = [started EXCEPT ![i] = @ + 1]
                    /\ calls' = calls + 1
       ELSE /\ run_cnt' = (run_cnt - 1) % W16
            /\ i' = i + 1
            /\ pc' = "d_mask"
            /\ UNCHANGED <<el, started, calls>>
    /\ Step
    /\ UNCHANGED <<sc, gen, disp, probe, tasks, local_ms, ms_ticks, sys_ms, sup, gie, cpuoff, ifg,
                   have_work, now_ms, ticks, expired, dropped, fromZero, snap, irqInCrit,
                   nowTicks, iterRan>>

\* uint32_t now = ms_ticks: two 16-bit moves with interrupts enabled, in the
\* order the compiler chose; the second move, then the call
Main_d_now_first ==
    /\ PendingProg /\ Running /\ pc \in {"d_now_lo", "d_now_hi"}
    /\ now_ms' = IF pc = "d_now_lo" THEN <<now_ms[1], ms_ticks[2]>>
                                    ELSE <<ms_ticks[1], now_ms[2]>>
    /\ pc' = IF pc = "d_now_lo" THEN "d_now_hi2" ELSE "d_now_lo2"
    /\ Step
    /\ UNCHANGED <<sc, gen, disp, probe, tasks, local_ms, ms_ticks, sys_ms, sup, gie, cpuoff, ifg,
                   i, have_work, run_cnt, el, hist>>

Main_d_now_second ==
    /\ PendingProg /\ Running /\ pc \in {"d_now_lo2", "d_now_hi2"}
    /\ now_ms' = IF pc = "d_now_lo2" THEN <<now_ms[1], ms_ticks[2]>>
                                     ELSE <<ms_ticks[1], now_ms[2]>>
    /\ pc' = "d_fn"
    /\ el' = 0
    /\ started' = [started EXCEPT ![i] = @ + 1]
    /\ calls' = calls + 1
    /\ Step
    /\ UNCHANGED <<sc, gen, disp, probe, tasks, local_ms, ms_ticks, sys_ms, sup, gie, cpuoff, ifg,
                   i, have_work, run_cnt,
                   ticks, expired, dropped, fromZero, snap, irqInCrit, nowTicks, iterRan>>

\* the task body returns, having run for dur[1] to dur[2] ticks
Main_d_fn_return ==
    /\ PendingProg /\ Running /\ pc = "d_fn"
    /\ pc' = "d_while"
    /\ el >= tasks[i].dur[1]
    /\ BodyEnd
    /\ UNCHANGED <<sc, gen, disp, probe, tasks, local_ms, ms_ticks, sys_ms, sup, gie, cpuoff, ifg,
                   i, have_work, run_cnt, now_ms, el, hist>>

MainPending ==
    \/ Main_mask \/ Main_scan \/ Main_sleep \/ Main_unmask
    \/ Main_d_mask \/ Main_d_snap \/ Main_d_zero \/ Main_d_unmask
    \/ Main_d_while \/ Main_d_now_first \/ Main_d_now_second \/ Main_d_fn_return

NextPending ==
    \/ TimerTick
    \/ Timer0_A0_ISR_scheduler
    \/ Timer0_A0_ISR_time_slices
    \/ MainPending

SpecPending == InitPending /\ [][NextPending]_vars

---------------------------------------------------------------------------
(* superloop.c *)

SuperloopScenarios ==
    { Scenario("superloop", "superloop", <<>>, 1, SupTicks) }

InitSuperloop == InitWith(SuperloopScenarios, "s_mask")

\* superloop.c Timer0_A0_ISR
\* if (++c100 >= 100u) { c100 = 0u; flag_100ms = true; }   likewise c500
Timer0_A0_ISR_superloop ==
    /\ sc.prog = "superloop"
    /\ IsrFrame
    /\ c100' = IF (c100 + 1) % W16 >= 100 THEN 0 ELSE (c100 + 1) % W16
    /\ flag_100ms' = (flag_100ms \/ (c100 + 1) % W16 >= 100)
    /\ c500' = IF (c500 + 1) % W16 >= 500 THEN 0 ELSE (c500 + 1) % W16
    /\ flag_500ms' = (flag_500ms \/ (c500 + 1) % W16 >= 500)
    /\ UNCHANGED <<tasks, local_ms, ms_ticks, sys_ms, expired, started, dropped, fromZero,
                   disp>>

SuperProg == sc.prog = "superloop"

\* __disable_interrupt();
Super_mask ==
    /\ SuperProg /\ Running /\ pc = "s_mask"
    /\ gie' = FALSE
    /\ pc' = "s_check"
    /\ Step
    /\ UNCHANGED <<sc, gen, disp, probe, tasks, local_ms, ms_ticks, sys_ms, sup, cpuoff, ifg,
                   i, have_work, run_cnt, now_ms, el, hist>>

\* if (!flag_100ms && !flag_500ms)
Super_check ==
    /\ SuperProg /\ Running /\ pc = "s_check"
    /\ pc' = IF ~flag_100ms /\ ~flag_500ms THEN "s_sleep" ELSE "s_unmask"
    /\ Step
    /\ UNCHANGED <<sc, gen, disp, probe, tasks, local_ms, ms_ticks, sys_ms, sup, gie, cpuoff, ifg,
                   i, have_work, run_cnt, now_ms, el, hist>>

\* __bis_SR_register(LPM0_bits | GIE);
Super_sleep ==
    /\ SuperProg /\ Running /\ pc = "s_sleep"
    /\ gie' = TRUE
    /\ cpuoff' = TRUE
    /\ pc' = "s_unmask"
    /\ Step
    /\ UNCHANGED <<sc, gen, disp, probe, tasks, local_ms, ms_ticks, sys_ms, sup, ifg,
                   i, have_work, run_cnt, now_ms, el, hist>>

\* __enable_interrupt();
Super_unmask ==
    /\ SuperProg /\ Running /\ pc = "s_unmask"
    /\ gie' = TRUE
    /\ pc' = "s_if100"
    /\ Step
    /\ UNCHANGED <<sc, gen, disp, probe, tasks, local_ms, ms_ticks, sys_ms, sup, cpuoff, ifg,
                   i, have_work, run_cnt, now_ms, el, hist>>

\* if (flag_100ms)   /   if (flag_500ms)
Super_if ==
    /\ SuperProg /\ Running /\ pc \in {"s_if100", "s_if500"}
    /\ pc' = IF pc = "s_if100"
             THEN (IF flag_100ms THEN "s_run100" ELSE "s_if500")
             ELSE (IF flag_500ms THEN "s_run500" ELSE "s_mask")
    /\ Step
    /\ UNCHANGED <<sc, gen, disp, probe, tasks, local_ms, ms_ticks, sys_ms, sup, gie, cpuoff, ifg,
                   i, have_work, run_cnt, now_ms, el, hist>>

\* { flag_100ms = false; P1OUT ^= BIT0; }   /   { flag_500ms = false; P1OUT ^= BIT1; }
Super_run ==
    /\ SuperProg /\ Running /\ pc \in {"s_run100", "s_run500"}
    /\ IF pc = "s_run100"
       THEN flag_100ms' = FALSE /\ flag_500ms' = flag_500ms /\ pc' = "s_if500"
       ELSE flag_500ms' = FALSE /\ flag_100ms' = flag_100ms /\ pc' = "s_mask"
    /\ Step
    /\ UNCHANGED <<sc, gen, disp, probe, tasks, local_ms, ms_ticks, sys_ms, c100, c500, gie, cpuoff, ifg,
                   i, have_work, run_cnt, now_ms, el, hist>>

MainSuperloop ==
    \/ Super_mask \/ Super_check \/ Super_sleep \/ Super_unmask \/ Super_if \/ Super_run

NextSuperloop ==
    \/ TimerTick
    \/ Timer0_A0_ISR_superloop
    \/ MainSuperloop

SpecSuperloop == InitSuperloop /\ [][NextSuperloop]_vars

---------------------------------------------------------------------------
(* phase_offset.c *)

\* main() of phase_offset.c
PhaseOffsetMain == << Reg("task_fast", 10, 1, 0, 1), Reg("task_medium", 100, 5, 2, 5),
                      Reg("task_slow", 500, 20, 10, 20) >>

PhaseScenarios ==
    { Scenario("ab", "phase_offset",
               << Reg("A", 10, 1, 0, 1), Reg("B", 100, 5, 2, 5) >>, NomSteps, NomTicks),
      Scenario("late", "phase_offset",
               << Reg("A", 2, 1, 0, 1), Reg("B", 7, 5, 1, 5) >>, 1, AdvTicks),
      ScenarioAt("wrap", "phase_offset",
               << Reg("A", 10, 1, 0, 1) >>, NomSteps, WrapTicks, UptimeAtWrap) }

InitPhase == InitWith(PhaseScenarios, "p_mask")

\* phase_offset.c Timer0_A0_ISR: sys_ms++
Timer0_A0_ISR_phase_offset ==
    /\ sc.prog = "phase_offset"
    /\ IsrFrame
    /\ sys_ms' = U32Add(sys_ms, U32(1))
    /\ UNCHANGED <<tasks, local_ms, ms_ticks, sup, expired, started, dropped, fromZero,
                   disp>>

PhaseProg == sc.prog = "phase_offset"

\* faulty variants of the due test: a strict comparison; an unsigned comparison
DueStrict(now, next_run_ms) == I32NonNeg(U32Sub(now, next_run_ms)) /\ now # next_run_ms

DueUnsigned(now, next_run_ms) ==
    now[1] > next_run_ms[1] \/ (now[1] = next_run_ms[1] /\ now[2] >= next_run_ms[2])

\* (int32_t)(now_ms - tasks[i].next_run_ms) >= 0
Due(now, next_run_ms) == I32NonNeg(U32Sub(now, next_run_ms))

\* faulty variant: next_run_ms = now_ms + period_ms
RescheduleFromNow(t, now) == U32Add(now, U32(t.period_ms))

\* faulty variant: the 16-bit addition of the low words, the carry dropped
RescheduleNoCarry(t, now) == <<t.next_run_ms[1], (t.next_run_ms[2] + t.period_ms) % W16>>

\* tasks[i].next_run_ms += tasks[i].period_ms
Reschedule(t, now) == U32Add(t.next_run_ms, U32(t.period_ms))

\* __disable_interrupt();
Phase_mask ==
    /\ PhaseProg /\ Running /\ pc = "p_mask"
    /\ gie' = FALSE
    /\ have_work' = FALSE
    /\ iterRan' = Zeros
    /\ pc' = "p_read"
    /\ Step
    /\ UNCHANGED <<sc, gen, disp, probe, tasks, local_ms, ms_ticks, sys_ms, sup, cpuoff, ifg,
                   i, run_cnt, now_ms, el,
                   ticks, expired, started, dropped, fromZero, snap, calls, irqInCrit,
                   nowTicks>>

\* now_ms = sys_ms;
Phase_read ==
    /\ PhaseProg /\ Running /\ pc = "p_read"
    /\ now_ms' = sys_ms
    /\ nowTicks' = ticks
    /\ pc' = "p_unmask"
    /\ Step
    /\ UNCHANGED <<sc, gen, disp, probe, tasks, local_ms, ms_ticks, sys_ms, sup, gie, cpuoff, ifg,
                   i, have_work, run_cnt, el,
                   ticks, expired, started, dropped, fromZero, snap, calls, irqInCrit,
                   iterRan>>

\* __enable_interrupt(); for (uint8_t i = 0; ...
Phase_unmask ==
    /\ PhaseProg /\ Running /\ pc = "p_unmask"
    /\ gie' = TRUE
    /\ i' = 1
    /\ pc' = "p_test"
    /\ Step
    /\ UNCHANGED <<sc, gen, disp, probe, tasks, local_ms, ms_ticks, sys_ms, sup, cpuoff, ifg,
                   have_work, run_cnt, now_ms, el, hist>>

\* i < task_count: the due test, and the call of fn(now_ms) or i++;
\* i == task_count: if (!have_work)
Phase_test ==
    /\ PhaseProg /\ Running /\ pc = "p_test"
    /\ IF i \in TaskIdx
       THEN IF Due(now_ms, tasks[i].next_run_ms)
            THEN /\ pc' = "p_fn"
                 /\ i' = i
                 /\ el' = 0
                 /\ started' = [started EXCEPT ![i] = @ + 1]
                 /\ iterRan' = [iterRan EXCEPT ![i] = @ + 1]
            ELSE /\ pc' = "p_test"
                 /\ i' = i + 1
                 /\ UNCHANGED <<el, started, iterRan>>
       ELSE /\ pc' = IF have_work THEN "p_mask" ELSE "p_sleep"
            /\ UNCHANGED <<i, el, started, iterRan>>
    /\ Step
    /\ UNCHANGED <<sc, gen, disp, probe, tasks, local_ms, ms_ticks, sys_ms, sup, gie, cpuoff, ifg,
                   have_work, run_cnt, now_ms,
                   ticks, expired, dropped, fromZero, snap, calls, irqInCrit, nowTicks>>

\* fn returns, having run for dur[1] to dur[2] ticks;
\* tasks[i].next_run_ms += tasks[i].period_ms; have_work = 1; i++
Phase_fn_return ==
    /\ PhaseProg /\ Running /\ pc = "p_fn"
    /\ tasks' = [tasks EXCEPT ![i].next_run_ms = Reschedule(tasks[i], now_ms)]
    /\ have_work' = TRUE
    /\ i' = i + 1
    /\ pc' = "p_test"
    /\ el >= tasks[i].dur[1]
    /\ BodyEnd
    /\ UNCHANGED <<sc, gen, disp, probe, local_ms, ms_ticks, sys_ms, sup, gie, cpuoff, ifg,
                   run_cnt, now_ms, el, hist>>

\* __bis_SR_register(LPM0_bits | GIE);
Phase_sleep ==
    /\ PhaseProg /\ Running /\ pc = "p_sleep"
    /\ gie' = TRUE
    /\ cpuoff' = TRUE
    /\ pc' = "p_mask"
    /\ Step
    /\ UNCHANGED <<sc, gen, disp, probe, tasks, local_ms, ms_ticks, sys_ms, sup, ifg,
                   i, have_work, run_cnt, now_ms, el, hist>>

MainPhase ==
    \/ Phase_mask \/ Phase_read \/ Phase_unmask \/ Phase_test \/ Phase_fn_return
    \/ Phase_sleep

NextPhase ==
    \/ TimerTick
    \/ Timer0_A0_ISR_phase_offset
    \/ MainPhase

SpecPhase == InitPhase /\ [][NextPhase]_vars

\* phase_offset.c with the three registrations of its main(), each body
\* running for up to its slice
RepoPhaseScenarios ==
    { Scenario("repo", "phase_offset", PhaseOffsetMain, NomSteps, RepoTicks) }

InitPhaseRepo == InitWith(RepoPhaseScenarios, "p_mask")

SpecPhaseRepo == InitPhaseRepo /\ [][NextPhase]_vars

---------------------------------------------------------------------------
(* The registration functions, called with any arguments on any table *)

\* scheduler_generator.c add_task: period and slice are uint16_t parameters
add_task(tbl, name, fn, period, slice) ==
    IF Len(tbl) >= MAX_TASKS
    THEN tbl
    ELSE Append(tbl, [name |-> name, period_ms |-> U16(period), slice_ms |-> U16(slice),
                      offset_ms |-> 0, func |-> fn])

\* the value each registration function returns (add_task returns nothing)
scheduler_register_task_ret(tbl, fn, period_ms) ==
    IF fn = NULL \/ period_ms = 0 \/ Len(tbl) >= MAX_TASKS THEN -1 ELSE 0

Scheduler_AddTask_ret(tbl, fn, period_ms) ==
    IF fn = NULL \/ period_ms = 0 \/ Len(tbl) >= MAX_TASKS THEN -1 ELSE 0

phase_offset_register_task_ret(tbl) ==
    IF Len(tbl) >= MAX_TASKS THEN -1 ELSE 0

\* the table after the call r made by program prog, and what the call returns
Registered(prog, tbl, r) ==
    CASE prog = "scheduler"    -> scheduler_register_task(tbl, r.fn, r.period_ms, r.dur)
      [] prog = "time_slices"  -> Scheduler_AddTask(tbl, r.fn, r.period_ms, r.slice_ms, r.dur)
      [] prog = "phase_offset" -> phase_offset_register_task(tbl, r.fn, r.period_ms,
                                                             r.slice_ms, r.phase_offset_ms, r.dur)
      [] prog = "generator"    -> add_task(tbl, r.fn, r.fn, r.period_ms, r.slice_ms)

Returned(prog, tbl, r) ==
    CASE prog = "scheduler"    -> scheduler_register_task_ret(tbl, r.fn, r.period_ms)
      [] prog = "time_slices"  -> Scheduler_AddTask_ret(tbl, r.fn, r.period_ms)
      [] prog = "phase_offset" -> phase_offset_register_task_ret(tbl)
      [] prog = "generator"    -> "void"

\* one registration call
RegisterCall(r) ==
    /\ tasks' = Registered(sc.prog, tasks, r)
    /\ call' = [prog |-> sc.prog, args |-> r, before |-> tasks,
                ret |-> Returned(sc.prog, tasks, r)]

\* arguments of a call: acceptable ones, a null callable, a zero period, a
\* slice longer than the period
RegCases ==
    { Reg("task", 1, 1, 0, 0), Reg(NULL, 1, 1, 0, 0), Reg("task", 0, 0, 0, 0),
      Reg("task", 1, 2, 0, 0) }

RegisterScenarios ==
    { Scenario(prog, prog, <<>>, NomSteps, 0) :
        prog \in {"scheduler", "time_slices", "phase_offset", "generator"} }

InitRegister == InitWith(RegisterScenarios, "boot")

Register ==
    /\ pc = "boot"
    /\ \E r \in RegCases : RegisterCall(r)
    /\ UNCHANGED <<sc, disp, probe, local_ms, ms_ticks, sys_ms, sup, hw, loop, hist,
                   schedule, num_slots, hyperperiod_ms, slot_idx>>

NextRegister == Register

SpecRegister == InitRegister /\ [][NextRegister]_vars

---------------------------------------------------------------------------
(* scheduler_generator.c: the planner.  tasks[k].name is <<"T", n>> for the
   n-th add_task call, and stands for the callable as well. *)

\* the while loop of gcd on two values below 2^16
RECURSIVE Euclid(_, _)
Euclid(a, b) == IF b = 0 THEN a ELSE Euclid(b, a % b)

\* gcd(a, b) of a uint32_t a and a period b (a uint16_t widened): after the
\* first pass of the loop both values are below 2^16
gcd(a, b) == IF b = 0 THEN a ELSE U32(Euclid(b, U32ModSmall(a, b)))

\* a / gcd(a, b) * b in uint32_t: the product is taken modulo 2^32.  With
\* b = 0 and a >= 2^16 the quotient a / a is 1 and the product is 0.
lcm(a, b) ==
    LET g == gcd(a, b)
    IN  IF g[1] = 0 THEN U32MulSmall(U32DivSmall(a, g[2]), b) ELSE U32(0)

RECURSIVE HyperFrom(_, _, _)
HyperFrom(tbl, k, hyper) ==
    IF k > Len(tbl) THEN hyper
    ELSE HyperFrom(tbl, k + 1, lcm(hyper, tbl[k].period_ms))

compute_hyperperiod(tbl) ==
    IF Len(tbl) = 0 THEN U32(0) ELSE HyperFrom(tbl, 2, U32(tbl[1].period_ms))

Swap(seq, a, b) == [seq EXCEPT ![a] = seq[b], ![b] = seq[a]]

\* the inner loop of the task sort for one i, from j on
RECURSIVE TaskPass(_, _, _)
TaskPass(t, a, b) ==
    IF b > Len(t) THEN t
    ELSE TaskPass(IF t[b].period_ms > t[a].period_ms THEN Swap(t, a, b) ELSE t, a, b + 1)

\* the outer loop of the task sort, from i on
RECURSIVE TaskSort(_, _)
TaskSort(t, a) ==
    IF a >= Len(t) THEN t ELSE TaskSort(TaskPass(t, a, a + 1), a + 1)

\* faulty variant: the offset is the accumulated slice itself
OffsetUnreduced(acc, period_ms) == acc

\* offset_ms = accumulated_slice % period_ms
OffsetOf(acc, period_ms) == acc % period_ms

\* faulty variant: the slices are not accumulated
AccStuck(acc, slice_ms) == acc

\* accumulated_slice += slice_ms (a uint16_t)
NextAcc(acc, slice_ms) == U16(acc + slice_ms)

\* the offsets of tasks k.. with accumulated_slice = acc
RECURSIVE AssignOffsets(_, _, _)
AssignOffsets(t, k, acc) ==
    IF k > Len(t) THEN t
    ELSE AssignOffsets([t EXCEPT ![k].offset_ms = OffsetOf(acc, t[k].period_ms)],
                       k + 1, NextAcc(acc, t[k].slice_ms))

compute_offsets(tbl) == AssignOffsets(TaskSort(tbl, 1), 1, 0)

\* the slots the loops of build_schedule produce for tasks k.., in the order
\* they produce them
\* instances = hyperperiod_ms / period_ms, as far as the loop over n can
\* store a slot: num_slots < MAX_SLOTS fails for good after MAX_SLOTS stores
InstanceCount(hyper, period_ms) ==
    LET instances == U32DivSmall(hyper, period_ms)
    IN  IF instances[1] > 0 THEN MAX_SLOTS ELSE Min(instances[2], MAX_SLOTS)

RECURSIVE Instances(_, _, _)
Instances(tbl, hyper, k) ==
    IF k > Len(tbl) THEN <<>>
    ELSE [n \in 1..InstanceCount(hyper, tbl[k].period_ms) |->
             [func |-> tbl[k].name,
              start_ms |-> tbl[k].offset_ms + (n - 1) * tbl[k].period_ms,
              duration_ms |-> tbl[k].slice_ms]]
         \o Instances(tbl, hyper, k + 1)

\* if (num_slots < MAX_SLOTS) schedule[num_slots++] = ...: the first
\* MAX_SLOTS slots are stored, the others are not
Stored(slots) == SubSeq(slots, 1, Min(Len(slots), MAX_SLOTS))

RECURSIVE SlotPass(_, _, _)
SlotPass(t, a, b) ==
    IF b > Len(t) THEN t
    ELSE SlotPass(IF t[b].start_ms < t[a].start_ms THEN Swap(t, a, b) ELSE t, a, b + 1)

RECURSIVE SlotSort(_, _)
SlotSort(t, a) ==
    IF a >= Len(t) THEN t ELSE SlotSort(SlotPass(t, a, a + 1), a + 1)

build_schedule(tbl) ==
    SlotSort(Stored(Instances(tbl, compute_hyperperiod(tbl), 1)), 1)

\* period and slice of an add_task call
PlanArgs ==
    { <<2, 0>>, <<2, 1>>, <<3, 1>>, <<4, 1>>, <<4, 2>>, <<10, 2>>, <<50, 5>>, <<100, 10>> }

\* period and slice of an add_task call with periods near the top of uint16_t
HyperArgs == { <<6, 1>>, <<4, 1>>, <<60000, 1>>, <<65521, 1>>, <<65535, 1>> }

PlannerScenarios == { Scenario("planner", "generator", <<>>, NomSteps, 0) }

HyperScenarios == { Scenario("hyper", "generator", <<>>, NomSteps, 0) }

\* the arguments main may pass to add_task
AddArgs == IF sc.name = "hyper" THEN HyperArgs ELSE PlanArgs

InitPlanner == InitWith(PlannerScenarios, "g_add")

GenProg == sc.prog = "generator"

\* add_task(name, fn, period, slice), called by main
Gen_add_task ==
    /\ GenProg /\ pc = "g_add" /\ Len(tasks) < MaxPlanTasks
    /\ \E a \in AddArgs :
          LET name == <<"T", Len(tasks) + 1>>
          IN  tasks' = add_task(tasks, name, name, a[1], a[2])
    /\ UNCHANGED <<sc, gen, disp, probe, local_ms, ms_ticks, sys_ms, sup, hw, loop, hist>>

\* compute_offsets()
Gen_compute_offsets ==
    /\ GenProg /\ pc = "g_add" /\ Len(tasks) >= 1
    /\ tasks' = compute_offsets(tasks)
    /\ pc' = "g_build"
    /\ UNCHANGED <<sc, gen, disp, probe, local_ms, ms_ticks, sys_ms, sup, hw, i, have_work, run_cnt,
                   now_ms, el, hist>>

\* build_schedule()
Gen_build_schedule ==
    /\ GenProg /\ pc = "g_build"
    /\ hyperperiod_ms' = compute_hyperperiod(tasks)
    /\ schedule' = build_schedule(tasks)
    /\ num_slots' = Len(build_schedule(tasks))
    /\ pc' = "g_start"
    /\ UNCHANGED <<sc, disp, probe, tasks, local_ms, ms_ticks, sys_ms, sup, hw, i, have_work, run_cnt,
                   now_ms, el, hist, slot_idx, call>>

\* __enable_interrupt(); while (1): the table goes to the dispatcher
Gen_start ==
    /\ GenProg /\ pc = "g_start"
    /\ gie' = TRUE
    /\ pc' = "g_loop"
    /\ UNCHANGED <<sc, gen, disp, probe, tasks, local_ms, ms_ticks, sys_ms, sup, cpuoff, ifg, since,
                   i, have_work, run_cnt, now_ms, el, hist>>

NextPlanner ==
    \/ Gen_add_task
    \/ Gen_compute_offsets
    \/ Gen_build_schedule
    \/ Gen_start

SpecPlanner == InitPlanner /\ [][NextPlanner]_vars

---------------------------------------------------------------------------
(* scheduler_generator.c: the dispatcher, from the first instruction of    *)
(* while(1) with the table of main()'s three tasks                         *)

\* main(): T1 10/2, T2 50/5, T3 100/10; bodies that return before the next
\* tick, and bodies that run for up to their slice
GeneratorMain ==
    << Reg(<<"T", 1>>, 10, 2, 0, 0), Reg(<<"T", 2>>, 50, 5, 0, 0),
       Reg(<<"T", 3>>, 100, 10, 0, 0) >>

GeneratorSlices ==
    << Reg(<<"T", 1>>, 10, 2, 0, 2), Reg(<<"T", 2>>, 50, 5, 0, 5),
       Reg(<<"T", 3>>, 100, 10, 0, 10) >>

\* uptime: whole hyperperiods gone by when the model starts; the wrap
\* scenario starts 97 ticks before sys_ms wraps
TableScenarios ==
    { Scenario("replay", "generator", GeneratorMain, NomSteps, TableTicks),
      Scenario("slices", "generator", GeneratorSlices, NomSteps, TableTicks),
      ScenarioAt("wrap", "generator", GeneratorMain, NomSteps, TableWrapTicks,
                 UptimeAtWrap \div 10) }

\* the add_task calls of main from the k-th on
RECURSIVE AddAll(_, _, _)
AddAll(tbl, regs, k) ==
    IF k > Len(regs) THEN tbl
    ELSE AddAll(add_task(tbl, regs[k].fn, regs[k].fn, regs[k].period_ms, regs[k].slice_ms),
                regs, k + 1)

\* main() up to while(1).  With sc.uptime > 0 the state is the one the
\* dispatcher is in on the last tick of a hyperperiod, back at the top of
\* the loop with slot_idx reset for the next pass over the table.
InitTable ==
    /\ sc \in TableScenarios
    /\ tasks = compute_offsets(AddAll(<<>>, sc.regs, 1))
    /\ schedule = build_schedule(tasks)
    /\ num_slots = Len(schedule)
    /\ hyperperiod_ms = compute_hyperperiod(tasks)
    /\ slot_idx = 0
    /\ sys_ms = IF sc.uptime = 0 THEN U32(0)
                ELSE U32Sub(U32Mul(sc.uptime, hyperperiod_ms[2]), U32(1))
    /\ local_ms = Zeros
    /\ ms_ticks = U32(0)
    /\ flag_100ms = FALSE /\ flag_500ms = FALSE /\ c100 = 0 /\ c500 = 0
    /\ gie = TRUE /\ cpuoff = FALSE /\ ifg = FALSE
    /\ since = 0
    /\ pc = "g_loop"
    /\ i = 1 /\ have_work = FALSE /\ run_cnt = 0 /\ now_ms = U32(0)
    /\ el = 0
    /\ ticks = 0
    /\ expired = Zeros /\ dropped = Zeros /\ fromZero = Zeros /\ started = Zeros
    /\ snap = 0 /\ calls = 0 /\ irqInCrit = FALSE
    /\ nowTicks = 0 /\ iterRan = Zeros
    /\ call = NoCall
    /\ disp = NoDisp /\ probe = NoProbe

\* if (slot_idx >= num_slots) slot_idx = 0
Norm(idx) == IF idx >= num_slots THEN 0 ELSE idx

\* sys_ms % hyperperiod_ms, for a hyperperiod below 2^16
Residue(now, hyper) == CASE hyper[1] = 0 -> U32ModSmall(now, hyper[2])

\* faulty variant: a slot is run on any tick from its start on
SlotDueLate(now, hyper, start_ms) == Residue(now, hyper) >= start_ms

\* (sys_ms % hyperperiod_ms) == s->start_ms
SlotDue(now, hyper, start_ms) == Residue(now, hyper) = start_ms

\* faulty variant: slot_idx is not advanced
SlotKept(idx) == idx

\* slot_idx++ (a uint8_t)
NextSlot(idx) == (idx + 1) % 256

\* the slot run_scheduler will test next, counted from 1: the one after the
\* slot whose body is running, else the one at slot_idx
PendingSlot == IF pc = "g_fn" THEN Norm(slot_idx + 1) + 1 ELSE Norm(slot_idx) + 1

\* sys_ms++; the tick on which the pending slot was due goes by unobserved
\* when main has not begun to read sys_ms since
timer_0_a0_isr ==
    /\ GenProg
    /\ IsrFrame
    /\ sys_ms' = U32Add(sys_ms, U32(1))
    /\ disp' = IF /\ disp.miss = 0
                 /\ pc \notin {"g_now_lo2", "g_now_hi2", "g_test"}
                 /\ SlotDue(sys_ms, hyperperiod_ms, schedule[PendingSlot].start_ms)
              THEN [disp EXCEPT !.miss = PendingSlot, !.missAt = ticks, !.missN = disp.n]
              ELSE disp
    /\ UNCHANGED <<tasks, local_ms, ms_ticks, sup, expired, started, dropped, fromZero>>

\* __disable_interrupt();
Gen_mask ==
    /\ GenProg /\ Running /\ pc = "g_loop"
    /\ gie' = FALSE
    /\ pc' = "g_sleep"
    /\ Step
    /\ UNCHANGED <<sc, gen, disp, probe, tasks, local_ms, ms_ticks, sys_ms, sup, cpuoff, ifg,
                   i, have_work, run_cnt, now_ms, el, hist>>

\* __bis_SR_register(LPM0_bits | GIE);
Gen_sleep ==
    /\ GenProg /\ Running /\ pc = "g_sleep"
    /\ gie' = TRUE
    /\ cpuoff' = TRUE
    /\ pc' = "g_unmask"
    /\ Step
    /\ UNCHANGED <<sc, gen, disp, probe, tasks, local_ms, ms_ticks, sys_ms, sup, ifg,
                   i, have_work, run_cnt, now_ms, el, hist>>

\* __enable_interrupt(); run_scheduler(): if (slot_idx >= num_slots)
\* slot_idx = 0; slot_t *s = &schedule[slot_idx];
Gen_unmask ==
    /\ GenProg /\ Running /\ pc = "g_unmask"
    /\ gie' = TRUE
    /\ slot_idx' = Norm(slot_idx)
    /\ pc' \in {"g_now_lo", "g_now_hi"}
    /\ Step
    /\ UNCHANGED <<sc, disp, probe, tasks, local_ms, ms_ticks, sys_ms, sup, cpuoff, ifg,
                   i, have_work, run_cnt, now_ms, el, hist,
                   schedule, num_slots, hyperperiod_ms, call>>

\* sys_ms % hyperperiod_ms reads sys_ms: two 16-bit moves with interrupts
\* enabled, in the order the compiler chose
Gen_now_first ==
    /\ GenProg /\ Running /\ pc \in {"g_now_lo", "g_now_hi"}
    /\ now_ms' = IF pc = "g_now_lo" THEN <<now_ms[1], sys_ms[2]>>
                                    ELSE <<sys_ms[1], now_ms[2]>>
    /\ pc' = IF pc = "g_now_lo" THEN "g_now_hi2" ELSE "g_now_lo2"
    /\ Step
    /\ UNCHANGED <<sc, gen, disp, probe, tasks, local_ms, ms_ticks, sys_ms, sup, gie, cpuoff, ifg,
                   i, have_work, run_cnt, el, hist>>

Gen_now_second ==
    /\ GenProg /\ Running /\ pc \in {"g_now_lo2", "g_now_hi2"}
    /\ now_ms' = IF pc = "g_now_lo2" THEN <<now_ms[1], sys_ms[2]>>
                                     ELSE <<sys_ms[1], now_ms[2]>>
    /\ pc' = "g_test"
    /\ Step
    /\ UNCHANGED <<sc, gen, disp, probe, tasks, local_ms, ms_ticks, sys_ms, sup, gie, cpuoff, ifg,
                   i, have_work, run_cnt, el, hist>>

\* the record of a call of slot k (from 1) of task <<"T", t>>
Called(k, t) ==
    [disp EXCEPT !.n = @ + 1, !.slot = k, !.at = ticks,
                 !.last[t] = ticks,
                 !.gap[t] = IF disp.last[t] < 0 THEN 0 ELSE ticks - disp.last[t],
                 !.miss = IF @ = k THEN 0 ELSE @,
                 !.recov = IF disp.miss = k THEN @ + 1 ELSE @,
                 !.recGap = IF disp.miss = k THEN ticks - disp.missAt ELSE @]

\* if ((sys_ms % hyperperiod_ms) == s->start_ms) { ...; s->func();
\* (start_ms and the test of the time the body took change nothing)
Gen_test ==
    /\ GenProg /\ Running /\ pc = "g_test"
    /\ IF SlotDue(now_ms, hyperperiod_ms, schedule[slot_idx + 1].start_ms)
       THEN /\ pc' = "g_fn"
            /\ el' = 0
            /\ disp' = Called(slot_idx + 1, schedule[slot_idx + 1].func[2])
       ELSE /\ pc' = "g_loop"
            /\ UNCHANGED <<el, disp>>
    /\ Step
    /\ UNCHANGED <<sc, gen, probe, tasks, local_ms, ms_ticks, sys_ms, sup, gie, cpuoff, ifg,
                   i, have_work, run_cnt, now_ms, hist>>

\* func returns, having run for dur[1] to dur[2] ticks; slot_idx++
Gen_fn_return ==
    /\ GenProg /\ Running /\ pc = "g_fn"
    /\ el >= BodyDur[1]
    /\ slot_idx' = NextSlot(slot_idx)
    /\ pc' = "g_loop"
    /\ BodyEnd
    /\ UNCHANGED <<sc, disp, probe, tasks, local_ms, ms_ticks, sys_ms, sup, gie, cpuoff, ifg,
                   i, have_work, run_cnt, now_ms, el, hist,
                   schedule, num_slots, hyperperiod_ms, call>>

MainTable ==
    \/ Gen_mask \/ Gen_sleep \/ Gen_unmask \/ Gen_now_first \/ Gen_now_second
    \/ Gen_test \/ Gen_fn_return

NextTable ==
    \/ TimerTick
    \/ timer_0_a0_isr
    \/ MainTable

SpecTable == InitTable /\ [][NextTable]_vars

\* the planner on periods whose least common multiple may pass 2^32
InitHyper == InitWith(HyperScenarios, "g_add")

SpecHyper == InitHyper /\ [][NextPlanner]_vars

---------------------------------------------------------------------------
(* main() from its first registration call: nine calls on a table of eight,
   then the loop *)

\* nine acceptable registrations; the k-th task has phase k - 1
NineCalls(period_ms) ==
    [k \in 1..(MAX_TASKS + 1) |-> Reg(<<"task", k>>, period_ms, 1, k - 1, 1)]

FullScenarios ==
    { Scenario("full_sched", "scheduler", NineCalls(4), NomSteps, FullTicks),
      Scenario("full_slices", "time_slices", NineCalls(4), NomSteps, FullTicks),
      Scenario("full_phase", "phase_offset", NineCalls(MAX_TASKS), NomSteps, FullTicks) }

InitBoot == InitFrom(FullScenarios, "boot", FALSE)

\* the next registration call of main
Boot_register ==
    /\ pc = "boot" /\ i <= Len(sc.regs)
    /\ RegisterCall(sc.regs[i])
    /\ i' = i + 1
    /\ UNCHANGED <<sc, disp, probe, local_ms, ms_ticks, sys_ms, sup, hw, pc, have_work, run_cnt,
                   now_ms, el, hist, schedule, num_slots, hyperperiod_ms, slot_idx>>

\* __enable_interrupt(); while (1)
Boot_start ==
    /\ pc = "boot" /\ i > Len(sc.regs)
    /\ gie' = TRUE
    /\ pc' = IF PhaseProg THEN "p_mask" ELSE "mask"
    /\ i' = 1
    /\ UNCHANGED <<sc, gen, disp, probe, tasks, local_ms, ms_ticks, sys_ms, sup, cpuoff, ifg, since,
                   have_work, run_cnt, now_ms, el, hist>>

NextBoot ==
    \/ Boot_register
    \/ Boot_start
    \/ TimerTick
    \/ Timer0_A0_ISR_scheduler
    \/ Timer0_A0_ISR_time_slices
    \/ Timer0_A0_ISR_phase_offset
    \/ MainPending
    \/ MainPhase

SpecBoot == InitBoot /\ [][NextBoot]_vars

---------------------------------------------------------------------------
(* time_slices.c: a task body, while (!TIME_EXPIRED(start, limit)) { ... } *)

\* ((int32_t)((ms_ticks) - (start)) >= (int32_t)(limit)), ms being the value
\* read from ms_ticks
TIME_EXPIRED(ms, start, limit) == I32Ge(U32Sub(ms, start), U32(limit))

\* Task_10ms and Task_100ms (Task_500ms is the same loop with limit 50): limit
\* is the literal of the body, equal to the slice the task is registered with
ExpiredScenarios ==
    { Scenario("Task_10ms", "time_slices", << Reg("Task_10ms", 10, 2, 0, 2) >>,
               NomSteps, 2 + ExpExtra),
      Scenario("Task_100ms", "time_slices", << Reg("Task_100ms", 100, 10, 0, 10) >>,
               NomSteps, 10 + ExpExtra) }

\* ms_ticks when the body is entered: at boot, below a carry out of the low
\* word, below 2^31, below the wrap of the counter
ExpiredStarts ==
    { U32(0), <<0, W16 - 2>>, <<0, W16 - 1>>, <<W16 \div 2 - 1, W16 - 1>>,
      <<W16 - 1, W16 - 2>>, <<W16 - 1, W16 - 1>> }

\* fn(now) has been called with now = ms_ticks: uint32_t start = now
InitExpired ==
    /\ sc \in ExpiredScenarios
    /\ tasks = BootTable
    /\ ms_ticks \in ExpiredStarts
    /\ now_ms = ms_ticks
    /\ local_ms = [k \in 1..MAX_TASKS |->
                    IF k \in 1..Len(tasks) THEN U32ModSmall(ms_ticks, tasks[k].period_ms)
                    ELSE 0]
    /\ sys_ms = U32(0)
    /\ flag_100ms = FALSE /\ flag_500ms = FALSE /\ c100 = 0 /\ c500 = 0
    /\ gie = TRUE /\ cpuoff = FALSE /\ ifg = FALSE
    /\ since = 0
    /\ pc = "t_first"
    /\ i = 1 /\ have_work = FALSE /\ run_cnt = 0
    /\ el = 0
    /\ ticks = 0
    /\ expired = Zeros /\ dropped = Zeros /\ fromZero = Zeros /\ started = Zeros
    /\ snap = 0 /\ calls = 0 /\ irqInCrit = FALSE
    /\ nowTicks = 0 /\ iterRan = Zeros
    /\ schedule = <<>> /\ num_slots = 0 /\ hyperperiod_ms = U32(0) /\ slot_idx = 0
    /\ call = NoCall
    /\ disp = NoDisp
    /\ \E w \in {"lo", "hi"} : probe = [NoProbe EXCEPT !.first = w]

\* the read of ms_ticks in TIME_EXPIRED: two 16-bit moves with interrupts
\* enabled, in the order the compiler chose
Task_read_first ==
    /\ sc.prog = "time_slices" /\ Running /\ pc = "t_first"
    /\ probe' = [probe EXCEPT
                   !.val = IF probe.first = "lo" THEN <<@[1], ms_ticks[2]>>
                                                 ELSE <<ms_ticks[1], @[2]>>,
                   !.e1 = el]
    /\ pc' = "t_second"
    /\ Step
    /\ UNCHANGED <<sc, gen, disp, tasks, local_ms, ms_ticks, sys_ms, sup, gie, cpuoff, ifg,
                   i, have_work, run_cnt, now_ms, el, hist>>

Task_read_second ==
    /\ sc.prog = "time_slices" /\ Running /\ pc = "t_second"
    /\ probe' = [probe EXCEPT
                   !.val = IF probe.first = "lo" THEN <<ms_ticks[1], @[2]>>
                                                 ELSE <<@[1], ms_ticks[2]>>,
                   !.e2 = el]
    /\ pc' = "t_test"
    /\ Step
    /\ UNCHANGED <<sc, gen, disp, tasks, local_ms, ms_ticks, sys_ms, sup, gie, cpuoff, ifg,
                   i, have_work, run_cnt, now_ms, el, hist>>

\* while (!TIME_EXPIRED(start, limit)) { printf(...); }: the body returns
\* when the macro is true, else the loop reads ms_ticks again
Task_test ==
    /\ sc.prog = "time_slices" /\ Running /\ pc = "t_test"
    /\ pc' = IF TIME_EXPIRED(probe.val, now_ms, tasks[i].slice_ms) THEN "t_done"
             ELSE "t_first"
    /\ Step
    /\ UNCHANGED <<sc, gen, disp, probe, tasks, local_ms, ms_ticks, sys_ms, sup, gie, cpuoff, ifg,
                   i, have_work, run_cnt, now_ms, el, hist>>

NextExpired ==
    \/ TimerTick
    \/ Timer0_A0_ISR_time_slices
    \/ Task_read_first \/ Task_read_second \/ Task_test

SpecExpired == InitExpired /\ [][NextExpired]_vars

---------------------------------------------------------------------------
(* The three mask-check-sleep loops under a fair CPU: an instruction that can
   execute does, an interrupt that is requested and enabled is taken.  The
   timer is not obliged to tick again, so a loop that sleeps on work it has
   missed sleeps for ever. *)

WakeScenarios ==
    { Scenario("wake_sched", "scheduler",
               <<Reg("a", 2, 1, 0, 1), Reg("b", 3, 1, 0, 1)>>, 1, WakeTicks),
      Scenario("wake_slices", "time_slices",
               <<Reg("a", 2, 1, 0, 1), Reg("b", 3, 1, 0, 1)>>, 1, WakeTicks),
      Scenario("wake_super", "superloop", <<>>, 1, SupTicks) }

InitWake ==
    \E s \in WakeScenarios :
        InitWith({s}, IF s.prog = "superloop" THEN "s_mask" ELSE "mask")

Timer0_A0_ISR ==
    \/ Timer0_A0_ISR_scheduler
    \/ Timer0_A0_ISR_time_slices
    \/ Timer0_A0_ISR_superloop

NextWake ==
    \/ TimerTick
    \/ Timer0_A0_ISR
    \/ MainPending
    \/ MainSuperloop

SpecWake ==
    /\ InitWake
    /\ [][NextWake]_vars
    /\ WF_vars(MainPending \/ MainSuperloop)
    /\ WF_vars(Timer0_A0_ISR)

---------------------------------------------------------------------------
(* The pending-counter and phase-offset dispatchers with the tick arriving
   at any instruction *)

DispatchScenarios == {s \in PendingScenarios \cup PhaseScenarios : s.steps = 1}

InitDispatch ==
    \E s \in DispatchScenarios :
        InitWith({s}, IF s.prog = "phase_offset" THEN "p_mask" ELSE "mask")

NextDispatch ==
    \/ TimerTick
    \/ Timer0_A0_ISR_scheduler
    \/ Timer0_A0_ISR_time_slices
    \/ Timer0_A0_ISR_phase_offset
    \/ MainPending
    \/ MainPhase

SpecDispatch == InitDispatch /\ [][NextDispatch]_vars

---------------------------------------------------------------------------
(* Time as the properties measure it *)

\* ticks from the start of the model to task k's first activation at or after it
Rel(k) ==
    LET start == IF sc.uptime = 0 THEN U32(0) ELSE BootTable[1].next_run_ms
    IN  U32Sub(BootTable[k].next_run_ms, start)[2]

\* activations of task k due at or before model time t (in ticks), those
\* before the start of the model included
DueBy(k, t) ==
    sc.uptime + (IF t < Rel(k) THEN 0 ELSE (t - Rel(k)) \div tasks[k].period_ms + 1)

\* dispatches of task k whose fn has returned
Done(k) == started[k] - (IF InBody /\ i = k THEN 1 ELSE 0)

\* model time of task k's next activation, counted without wrap
NextRel(k) == Rel(k) + (Done(k) - sc.uptime) * tasks[k].period_ms

\* invocations the drain in progress still has to start for task k
Owed(k) ==
    IF k # i THEN 0
    ELSE IF pc \in {"d_zero", "d_unmask", "d_while", "d_fn"} THEN run_cnt
    ELSE IF pc \in {"d_now_lo", "d_now_hi", "d_now_lo2", "d_now_hi2"} THEN run_cnt + 1
    ELSE 0

---------------------------------------------------------------------------
(* Properties *)

\* the loop is halted in LPM0 with no interrupt about to be taken
Asleep == cpuoff /\ ~(gie /\ ifg)

\* C1: the mask-check-sleep loops lose no wake-up: the CPU is never halted
\* with a task pending or a flag set, a halted CPU always has interrupts
\* enabled, and wherever in the sequence the tick arrives, a task whose
\* pending count (or flag) it set is eventually run, even if no further tick
\* comes.
C1_NoLostWakeup ==
    /\ [](Asleep => /\ gie
                     /\ \A k \in TaskIdx : tasks[k].pending = 0
                     /\ ~flag_100ms /\ ~flag_500ms)
    /\ \A k \in 1..WakeSlots :
           (k \in TaskIdx /\ tasks[k].pending > 0) ~> (pc = "d_fn" /\ i = k)
    /\ flag_100ms ~> (pc = "s_run100")
    /\ flag_500ms ~> (pc = "s_run500")

\* the tick that completes a period is latched after the scan found nothing,
\* just before the loop halts
C1_Witness ==
    /\ pc = "sleep" /\ ifg /\ ~gie
    /\ PeriodElapsed(local_ms[1], tasks[1].period_ms)

\* C2: the phase-offset loop enters LPM0 only with interrupts masked since the
\* snapshot of sys_ms: whenever it is about to sleep or sleeps, no tick has been
\* serviced since now_ms was read.
C2_SleepAtomicWithCheck ==
    (PhaseProg /\ (pc = "p_sleep" \/ cpuoff)) => (ticks = nowTicks)

\* C3: tasks A (10, 1, 0) and B (100, 5, 2): A is invoked with now_ms = 0, 10,
\* 20, ..., B with now_ms = 2, 102, ..., never both in one iteration; once
\* tick 999 has been handled A has run 100 times and B 10 times.
C3_PhaseScenario ==
    sc.name = "ab" =>
        /\ (pc = "p_fn" /\ i = 1) => now_ms = U32(10 * (started[1] - 1))
        /\ (pc = "p_fn" /\ i = 2) => now_ms = U32(2 + 100 * (started[2] - 1))
        /\ iterRan[1] + iterRan[2] <= 1
        /\ started[1] <= ticks \div 10 + 1
        /\ started[2] <= (ticks + 98) \div 100
        /\ cpuoff => (started[1] = ticks \div 10 + 1 /\ started[2] = (ticks + 98) \div 100)
        /\ (cpuoff /\ ticks = 999) => (started[1] = 100 /\ started[2] = 10)

C3_Witness ==
    sc.name = "ab" /\ cpuoff /\ ticks = 999 /\ started[1] = 100 /\ started[2] = 10

\* C4: no activation is skipped or run twice: a task never has more dispatches
\* than activations due at the snapshot, it runs at most once per iteration,
\* every task the iteration has passed either ran in it or had caught up, and
\* the loop goes to sleep only when every task has caught up.
C4_NoSkippedActivation ==
    PhaseProg =>
        \A k \in TaskIdx :
            /\ started[k] <= DueBy(k, nowTicks)
            /\ iterRan[k] <= 1
            /\ (pc \in {"p_test", "p_fn", "p_sleep"} /\ k < i) =>
                   (iterRan[k] = 1 \/ started[k] = DueBy(k, nowTicks))
            /\ (pc = "p_sleep" \/ cpuoff) => started[k] = DueBy(k, nowTicks)

\* task A is being run while at least two more of its activations are overdue
C4_Witness ==
    /\ sc.name = "late" /\ pc = "p_fn" /\ i = 1
    /\ DueBy(1, nowTicks) >= started[1] + 2

\* C5: next_run_ms = phase_offset_ms + k * period_ms modulo 2^32, k the number
\* of completed dispatches.
C5_ZeroDrift ==
    PhaseProg =>
        \A k \in TaskIdx :
            tasks[k].next_run_ms =
                U32Add(U32(tasks[k].phase_offset_ms), U32Mul(Done(k), tasks[k].period_ms))

\* a dispatch of task A has completed that ran later than its activation time
C5_Witness ==
    /\ sc.name = "late" /\ pc = "p_test" /\ i = 2 /\ iterRan[1] = 1
    /\ now_ms # U32Sub(tasks[1].next_run_ms, U32(tasks[1].period_ms))

\* C6: the due test agrees with the comparison of the unwrapped times, and
\* across the wrap the period-10 task is invoked exactly at its activation
\* times, once every 10 ticks.
C6_WrapDueTest ==
    PhaseProg =>
        /\ \A k \in TaskIdx :
               (pc \in {"p_unmask", "p_test", "p_fn", "p_sleep"} /\ ~(pc = "p_fn" /\ i = k)) =>
                   (Due(now_ms, tasks[k].next_run_ms) <=> nowTicks >= NextRel(k))
        /\ sc.name = "wrap" =>
               /\ pc = "p_fn" => nowTicks = 10 * (started[1] - sc.uptime - 1)
               /\ cpuoff => started[1] - sc.uptime = ticks \div 10 + 1

\* the task runs after both counters have wrapped
C6_Witness ==
    /\ sc.name = "wrap" /\ pc = "p_fn"
    /\ now_ms[1] = 0 /\ tasks[1].next_run_ms[1] = 0 /\ started[1] - sc.uptime >= 3

\* C7: one task of period 10 whose body finishes within a tick: pending never
\* exceeds 1, and once tick 1000 has been handled the task has run 100 times.
C7_PendingScenario ==
    sc.name = "single10" =>
        /\ tasks[1].pending <= 1
        /\ started[1] <= ticks \div 10
        /\ cpuoff => started[1] = ticks \div 10
        /\ (cpuoff /\ ticks = 1000) => started[1] = 100

C7_Witness ==
    sc.name = "single10" /\ cpuoff /\ ticks = 1000 /\ started[1] = 100

\* C8: the drain's snapshot and zeroing of pending are one critical section:
\* interrupts are masked throughout it and no tick is serviced in it, pending
\* is 0 and run_cnt the snapshot when it ends, and fn is then invoked exactly
\* that many times.
C8_DrainAtomic ==
    PendingProg =>
        /\ InCrit => ~gie
        /\ ~irqInCrit
        /\ pc = "d_unmask" => (tasks[i].pending = 0 /\ run_cnt = snap)
        /\ pc \in {"d_unmask", "d_while", "d_fn", "d_now_lo", "d_now_hi",
                   "d_now_lo2", "d_now_hi2"} => calls + Owed(i) = snap
        /\ pc \in {"mask", "scan", "sleep", "unmask", "d_mask"} => calls = snap

\* a drain that found pending = 3 has made its three invocations
C8_Witness ==
    PendingProg /\ pc = "d_mask" /\ snap = 3 /\ calls = 3

\* C9: as long as no increment has been discarded at the ceiling, completed
\* invocations + pending + invocations owed by the drain in progress (the one
\* running and those not yet started) = period expiries counted by the ISR.
C9_NoLostActivation ==
    PendingProg =>
        \A k \in TaskIdx :
            dropped[k] = 0 =>
                Done(k) + (IF pc = "d_zero" /\ k = i THEN 0 ELSE tasks[k].pending)
                        + (started[k] - Done(k)) + Owed(k)
                    = expired[k]

\* the 10 ms task with a 35 ms body: a drain has found 3 or more pending
C9_Witness ==
    sc.name = "overrun35" /\ pc = "d_unmask" /\ run_cnt >= 3 /\ started[1] >= 1

\* C10: pending is the number of period expiries since it was last zeroed,
\* capped at 0xFFFF: it never exceeds the ceiling and never wraps.
C10_PendingSaturates ==
    PendingProg =>
        \A k \in TaskIdx :
            /\ tasks[k].pending <= PENDING_MAX
            /\ tasks[k].pending = Min(fromZero[k], PENDING_MAX)

\* an expiry has arrived with pending at the ceiling and left it there
C10_Witness ==
    PendingProg /\ dropped[1] > 0 /\ tasks[1].pending = PENDING_MAX /\ fromZero[1] > PENDING_MAX

\* C11: the handler counts a period expiry for a task of period P on exactly
\* the ticks P, 2P, 3P, ...: after t ticks it has counted t \div P of them.
C11_PeriodAccounting ==
    PendingProg =>
        \A k \in TaskIdx : expired[k] = ticks \div tasks[k].period_ms

\* the last registration call was made with arguments that must be refused
BadCall ==
    /\ call.prog # "none"
    /\ \/ call.args.fn = NULL
       \/ call.args.period_ms = 0
       \/ Len(call.before) >= MAX_TASKS

\* C12: a registration call with a null callable, a zero period or a full
\* table leaves the task table (and so the task count) as it was.
C12_RegistrationRejects ==
    BadCall => tasks = call.before

\* the programs whose registration takes a slice
HasSlice == sc.prog \in {"time_slices", "phase_offset", "generator"}

\* C13: where registration takes a slice, a call whose slice exceeds its
\* period leaves the table as it was, and every registered task has
\* period_ms > 0 and slice_ms <= period_ms.
C13_SliceWithinPeriod ==
    HasSlice =>
        /\ (call.prog # "none" /\ call.args.slice_ms > call.args.period_ms) =>
               tasks = call.before
        /\ \A k \in TaskIdx :
               tasks[k].period_ms > 0 /\ tasks[k].slice_ms <= tasks[k].period_ms

\* the fields of a descriptor that registration writes
Descriptor(t) == <<t.fn, t.period_ms, t.slice_ms, t.phase_offset_ms>>

\* C14: with eight tasks registered the ninth call returns -1 and leaves the
\* table as it was; the loop then runs on a table of exactly the eight
\* descriptors registered, and dispatches every one of them: whenever it goes
\* to sleep each task has had all the activations due to it.
C14_TableFull ==
    /\ Len(tasks) <= MAX_TASKS
    /\ (call.prog # "none" /\ Len(call.before) >= MAX_TASKS) =>
           (call.ret = -1 /\ Len(tasks) = MAX_TASKS /\
            \A k \in TaskIdx : Descriptor(tasks[k]) = Descriptor(call.before[k]))
    /\ pc # "boot" =>
           /\ Len(tasks) = MAX_TASKS
           /\ \A k \in TaskIdx :
                  /\ tasks[k].fn = sc.regs[k].fn
                  /\ tasks[k].period_ms = sc.regs[k].period_ms
                  /\ PendingProg /\ Asleep => started[k] = ticks \div tasks[k].period_ms
                  /\ PhaseProg /\ (pc = "p_sleep" \/ cpuoff) =>
                         started[k] = DueBy(k, nowTicks)

\* the ninth call has been refused and each of the eight tasks has since run
\* at least twice
C14_Witness ==
    /\ pc # "boot" /\ call.prog # "none" /\ call.ret = -1
    /\ call.args.fn = <<"task", MAX_TASKS + 1>>
    /\ \A k \in 1..MAX_TASKS : started[k] >= 2

\* build_schedule has returned
Built == GenProg /\ pc \in {"g_start", "g_loop"}

\* compute_offsets has returned
Planned == GenProg /\ pc \in {"g_build", "g_start", "g_loop"}

NoOverlap(sch) ==
    \A k \in 1..(Len(sch) - 1) : sch[k].start_ms + sch[k].duration_ms <= sch[k + 1].start_ms

Ascending(sch) ==
    \A k \in 1..(Len(sch) - 1) : sch[k].start_ms <= sch[k + 1].start_ms

StrictlyAscending(sch) ==
    \A k \in 1..(Len(sch) - 1) : sch[k].start_ms < sch[k + 1].start_ms

RECURSIVE SumSlices(_, _)
SumSlices(tbl, k) == IF k > Len(tbl) THEN 0 ELSE tbl[k].slice_ms + SumSlices(tbl, k + 1)

MinPeriod(tbl) ==
    CHOOSE m \in {tbl[k].period_ms : k \in 1..Len(tbl)} :
        \A k \in 1..Len(tbl) : m <= tbl[k].period_ms

\* the slices fit the shortest period
SlicesFit == SumSlices(tasks, 1) <= MinPeriod(tasks)

\* every period is a multiple of the shortest one, every slice is non-zero
Harmonic ==
    \A k \in TaskIdx : tasks[k].period_ms % MinPeriod(tasks) = 0 /\ tasks[k].slice_ms > 0

\* the add_task calls of the repository's main(): T1 10/2, T2 50/5, T3 100/10
IsRepo ==
    {<<tasks[k].name, tasks[k].period_ms, tasks[k].slice_ms>> : k \in TaskIdx}
        = { <<<<"T", 1>>, 10, 2>>, <<<<"T", 2>>, 50, 5>>, <<<<"T", 3>>, 100, 10>> }

\* slots the hyperperiod holds: the sum over the tasks of H / period
RECURSIVE NeededSlots(_, _)
NeededSlots(tbl, k) ==
    IF k > Len(tbl) THEN 0
    ELSE U32Val(U32DivSmall(compute_hyperperiod(tbl), tbl[k].period_ms))
         + NeededSlots(tbl, k + 1)

\* lcm(a, b) is the least common multiple of a and b: a / gcd(a, b) times b
\* does not pass 2^32 - 1
LcmExact(a, b) ==
    LET g == gcd(a, b)
    IN  U32Le(U32DivSmall(a, g[2]), U32DivSmall(<<W16 - 1, W16 - 1>>, b))

\* every lcm call of compute_hyperperiod from task k on is exact
RECURSIVE HyperExact(_, _, _)
HyperExact(tbl, k, hyper) ==
    \/ k > Len(tbl)
    \/ /\ LcmExact(hyper, tbl[k].period_ms)
       /\ HyperExact(tbl, k + 1, lcm(hyper, tbl[k].period_ms))

\* the least common multiple of the periods fits 32 bits
LcmFits(tbl) == HyperExact(tbl, 2, U32(tbl[1].period_ms))

\* h is a non-zero common multiple of the periods
CommonMultiple(tbl, h) ==
    /\ h # U32(0)
    /\ \A k \in 1..Len(tbl) : U32ModSmall(h, tbl[k].period_ms) = 0

\* C15 as stated: whenever the slices fit the shortest period, the slot table
\* built has no two overlapping slots.
C15_AnyPeriods ==
    (Built /\ SlicesFit) => NoOverlap(schedule)

\* C15: when the slices fit the shortest period, every period is a multiple of
\* the shortest one and no slice is zero, compute_offsets and build_schedule
\* yield a slot table sorted by start in which no two slots overlap.
C15_HarmonicNoOverlap ==
    (Built /\ SlicesFit /\ Harmonic) =>
        /\ num_slots = Len(schedule)
        /\ Ascending(schedule)
        /\ NoOverlap(schedule)

\* a table of several slots built for two tasks of different periods
C15_Witness ==
    /\ Built /\ SlicesFit /\ Harmonic
    /\ Len(tasks) = 2 /\ tasks[1].period_ms # tasks[2].period_ms /\ num_slots >= 3

\* C16: for the repository's tasks compute_offsets leaves the order 100, 50,
\* 10 with offsets 0, 10, 5; build_schedule finds the hyperperiod 100 and
\* emits 13 slots in ascending order of start_ms.
C16_PlannerScenario ==
    (Planned /\ IsRepo) =>
        /\ [k \in 1..3 |-> <<tasks[k].period_ms, tasks[k].offset_ms>>]
               = << <<100, 0>>, <<50, 10>>, <<10, 5>> >>
        /\ Built =>
               /\ hyperperiod_ms = U32(100)
               /\ num_slots = 13 /\ Len(schedule) = 13
               /\ Ascending(schedule)
               /\ Cardinality({k \in 1..13 : schedule[k].func = <<"T", 1>>}) = 10
               /\ Cardinality({k \in 1..13 : schedule[k].func = <<"T", 2>>}) = 2
               /\ Cardinality({k \in 1..13 : schedule[k].func = <<"T", 3>>}) = 1

C16_Witness ==
    IsRepo /\ GenProg /\ pc = "g_loop" /\ num_slots = 13 /\ hyperperiod_ms = U32(100)

\* C17: for the repository's tasks the slots built have strictly increasing
\* start_ms and each ends no later than the next one starts.
C17_SlotTableInvariant ==
    (Built /\ IsRepo) => (StrictlyAscending(schedule) /\ NoOverlap(schedule))

\* C18: after compute_offsets the tasks are in descending order of period,
\* those of equal period in their order of registration; after build_schedule
\* slots of equal start_ms have the earlier-registered task first.
C18_StableSort ==
    /\ Planned =>
           \A j, k \in TaskIdx :
               j < k => \/ tasks[j].period_ms > tasks[k].period_ms
                        \/ /\ tasks[j].period_ms = tasks[k].period_ms
                           /\ tasks[j].name[2] < tasks[k].name[2]
    /\ Built =>
           \A j, k \in 1..Len(schedule) :
               (j < k /\ schedule[j].start_ms = schedule[k].start_ms) =>
                   schedule[j].func[2] < schedule[k].func[2]

\* C19: a table is left for the dispatcher only if it holds every activation
\* of the hyperperiod; when these exceed MAX_SLOTS build_schedule fails.
C19_SlotTableFull ==
    Built => num_slots = NeededSlots(tasks, 1)

\* C20: no schedule with overlapping slots reaches the dispatcher.
C20_ConflictRejected ==
    (GenProg /\ pc = "g_loop") => NoOverlap(schedule)

\* C24: while a task fn is executing interrupts are enabled and main is in no
\* critical section, so the tick handler can be entered during the body.
C24_FnOutsideCritical ==
    InBody => (gie /\ ~InCrit)

\* the handler has run during a task body
C24_Witness ==
    InBody /\ gie /\ el >= 1 /\ ticks >= 1

\* C21: once build_schedule has returned, the hyperperiod it stored is the
\* least common multiple of the periods, which therefore fits 32 bits: it is
\* never a product taken modulo 2^32 (a planner that fails instead never gets
\* here with such periods).
C21_HyperperiodIsLcm ==
    Built => (LcmFits(tasks) /\ CommonMultiple(tasks, hyperperiod_ms))

\* the activation window [due, due + slice) of task a's next activation holds
\* the tick on which task b is next due
DueInWindow(a, b) ==
    LET due == U32Val(tasks[a].next_run_ms)
        other == U32Val(tasks[b].next_run_ms)
    IN  due <= other /\ other < due + tasks[a].slice_ms

\* C22: with the registrations of phase_offset.c's main() no two tasks are
\* due on the same tick and no task's activation window holds the due tick
\* of another task.
C22_NoSharedDueTick ==
    PhaseProg => \A a \in TaskIdx : \A b \in TaskIdx \ {a} :
                    /\ tasks[a].next_run_ms # tasks[b].next_run_ms
                    /\ ~DueInWindow(a, b)

\* the dispatcher started at boot; every body returns before the next tick
FromBoot == GenProg /\ sc.uptime = 0
ShortBodies == GenProg /\ \A k \in 1..Len(sc.regs) : sc.regs[k].dur[2] = 0

\* H as a number
Hyper == U32Val(hyperperiod_ms)

\* slot starts c * H + start_ms, for the hyperperiods c >= first, that are
\* at or before tick t
RECURSIVE SlotsDue(_, _, _)
SlotsDue(t, first, k) ==
    IF k > num_slots THEN 0
    ELSE LET due == first * Hyper + schedule[k].start_ms
         IN  (IF t >= due THEN (t - due) \div Hyper + 1 ELSE 0) + SlotsDue(t, first, k + 1)

\* the n-th slot run is the next one in table order, run on the tick of its
\* start in the hyperperiod after the one of the slots before it, the first
\* pass over the table being made in hyperperiod `first`; and when main
\* sleeps every slot due so far has been run
ReplayFrom(first) ==
    /\ disp.n >= 1 =>
          /\ disp.slot = ((disp.n - 1) % num_slots) + 1
          /\ disp.at = ((disp.n - 1) \div num_slots + first) * Hyper
                          + schedule[disp.slot].start_ms
    /\ pc = "g_fn" => slot_idx + 1 = disp.slot
    /\ cpuoff => disp.n = SlotsDue(ticks, first, 1)

\* C23 as stated: every slot is run on the tick of its start in every
\* hyperperiod, in table order, the first hyperperiod after boot included.
C23_EveryHyperperiod == (FromBoot /\ ShortBodies) => ReplayFrom(0)

\* C23: from the tick sys_ms = H on, every slot is run on the tick of its
\* start once per hyperperiod, in table order; in the first hyperperiod after
\* boot no slot is run.
C23_ReplayFromSecond == (FromBoot /\ ShortBodies) => ReplayFrom(1)

\* the table has been run twice over and the third pass is under way
C23_Witness ==
    /\ FromBoot /\ ShortBodies
    /\ disp.n = 2 * num_slots + 2 /\ disp.slot = 2 /\ slot_idx = 2 /\ cpuoff

\* the period of the task added by the t-th add_task call
PeriodOf(t) == tasks[CHOOSE k \in TaskIdx : tasks[k].name = <<"T", t>>].period_ms

\* C26: with bodies that return before the next tick, consecutive
\* activations of a task are exactly period_ms ticks apart, also when sys_ms
\* has wrapped from 2^32 - 1 to 0 between them.
C26_PeriodAcrossWrap ==
    ShortBodies => \A t \in TaskIdx : disp.gap[t] \in {0, PeriodOf(t)}

\* C27: from the tick on which the pending slot was due going by unobserved
\* until that slot is run, slot_idx stays at that slot and no slot is run;
\* and a slot is run only when the value read from sys_ms, modulo H, is its
\* start_ms.
C27_MissedSlotWaits ==
    GenProg =>
      /\ disp.miss # 0 => (PendingSlot = disp.miss /\ disp.n = disp.missN)
      /\ pc = "g_fn" =>
            /\ disp.slot = slot_idx + 1
            /\ Residue(now_ms, hyperperiod_ms) = schedule[slot_idx + 1].start_ms

\* a slot missed after the first hyperperiod is being run, a hyperperiod late
C27_Witness ==
    /\ GenProg /\ pc = "g_fn"
    /\ disp.recov >= 1 /\ disp.missAt >= Hyper /\ disp.recGap = Hyper
    /\ disp.at = disp.missAt + Hyper

\* C28: with bodies that run for up to their slice, at the end of every
\* hyperperiod after the first every slot of the table has been run once
\* more.
C28_SlicesKeepSchedule ==
    (FromBoot /\ cpuoff /\ ticks >= Hyper /\ ticks % Hyper = Hyper - 1)
        => disp.n = num_slots * (ticks \div Hyper)

\* C25: when a task body tests TIME_EXPIRED(start, limit), the macro is true
\* only if at least limit ticks have elapsed since start by the time the
\* read of ms_ticks is complete, and false only if fewer than limit ticks had
\* elapsed when the read began; also when ms_ticks wraps during the body.
C25_ExpiredIffElapsed ==
    pc = "t_test" =>
        IF TIME_EXPIRED(probe.val, now_ms, tasks[i].slice_ms)
        THEN probe.e2 >= tasks[i].slice_ms
        ELSE probe.e1 < tasks[i].slice_ms

=============================================================================
